---- MODULE Spec2Model ----
(***************************************************************************)
(* Order fulfilment backend (src/main.py): the POST /orders handler        *)
(* create_order, the local order store written by save_order_to_db, the    *)
(* ERP (Accu360) calls it makes, and the webhook handler accu360_webhook.  *)
(*                                                                         *)
(* Handlers are `async def` coroutines on one event loop: a handler runs   *)
(* without interruption from one `await` of an ERP call to the next, so    *)
(* there is one action per such segment of create_order, and one action    *)
(* for the whole webhook handler, which awaits nothing.                    *)
(***************************************************************************)
EXTENDS Integers, Sequences, FiniteSets, TLC

VARIABLES
    scope,      \* which environment is explored: "detail", "concurrent" or "sync"
    cfg,        \* process configuration read from the environment at import
    orders,     \* the orders table: order id -> row, or NoRow
    hs,         \* one record per in-flight / finished create_order execution
    erpSales,   \* ERP side: po_no of every sales order the ERP accepted (2xx)
    whCount,    \* number of webhook deliveries handled so far
    lastWh,     \* the last webhook delivery: payload, matched row, response,
                \* and the sales orders the ERP held when it was delivered
    sy          \* sync_customer_fields called on its own against one ERP customer

vars == <<scope, cfg, orders, hs, erpSales, whCount, lastWh, sy>>

(***************************************************************************)
(* Bounds and input alphabets                                              *)
(***************************************************************************)
MaxItems == 2       \* longest item list of a request
MaxWebhooks == 1    \* webhook deliveries per behaviour
MaxSyncCalls == 2   \* calls of sync_customer_fields on the same customer

NULL == "NULL"      \* Python None, or a key absent from a JSON object

Slots == {1, 2}                         \* create_order executions
OrderIds == {"SF1", "SF2"}              \* values generate_order_id may draw
SalesNames == {"SO1", "SO2"}            \* sales-order names the ERP assigns
Names == {"Asha", "Bora"}               \* customer_name values
Skus == {"", "A1"}                      \* accu360_sku values; "" is empty
WebhookStatuses == {"delivered"}
WebhookIds == OrderIds \cup SalesNames \cup {"SO9"}

ItemLists == UNION {[1..n -> Skus] : n \in 1..MaxItems}

\* CreateOrderRequest, reduced to the fields the handler branches on or stores
Requests == [customer_name : Names, items : ItemLists]

\* Configurations of the process environment (ACCU360_* variables)
Configs ==
    { [api_key |-> "k", api_secret |-> "s", city |-> "Dar", province |-> "DSM"],
      [api_key |-> NULL, api_secret |-> "s", city |-> "Dar", province |-> "DSM"],
      [api_key |-> "k", api_secret |-> NULL, city |-> "Dar", province |-> "DSM"],
      [api_key |-> "k", api_secret |-> "s", city |-> NULL, province |-> "DSM"],
      [api_key |-> "k", api_secret |-> "s", city |-> "Dar", province |-> NULL] }

GoodConfig == [api_key |-> "k", api_secret |-> "s", city |-> "Dar", province |-> "DSM"]

\* Python truthiness of an optional string
Truthy(s) == s # NULL /\ s # ""

(***************************************************************************)
(* HTTP responses of the ERP                                               *)
(***************************************************************************)
\* A parsed JSON object, by the keys the code reads; `other` says the object
\* has keys besides these (it matters only for `not accu360_data`).
EmptyObj ==
    [error |-> NULL, message |-> NULL, detail |-> NULL, name |-> NULL,
     data_name |-> NULL, customers |-> <<>>, full_name |-> NULL,
     mobile_number |-> NULL, cust_name |-> NULL, other |-> FALSE]

\* net: the call raised (connection error, timeout) instead of returning;
\* valid: the body parses as JSON; text: response.text
Resp(code, valid, text, json) ==
    [net |-> FALSE, code |-> code, valid |-> valid, text |-> text, json |-> json]

NetError == [net |-> TRUE, code |-> 0, valid |-> FALSE, text |-> "", json |-> EmptyObj]

\* No response on its way to the handler
NoResponse == Resp(0, FALSE, "", EmptyObj)

Json(code, json) == Resp(code, TRUE, "{...}", json)
NotJson(code, text) == Resp(code, FALSE, text, EmptyObj)

safe_response_json(response) ==
    IF response.valid THEN response.json ELSE EmptyObj

\* The JSON object with the given keys set
Obj(fields) == [k \in DOMAIN EmptyObj |-> IF k \in DOMAIN fields THEN fields[k] ELSE EmptyObj[k]]

(***************************************************************************)
(* Order Record Store                                                      *)
(***************************************************************************)
\* A row of the orders table (class Order), by the columns the handlers
\* branch on or that identify the snapshot taken from the request.  The
\* timestamps created_at / updated_at are left out: no handler reads them.
NoRow ==
    [status |-> NULL, accu360_order_id |-> NULL, customer_name |-> NULL, items |-> <<>>]

NewRow(accu360_order_id, status, request) ==
    [status |-> status, accu360_order_id |-> accu360_order_id,
     customer_name |-> request.customer_name, items |-> request.items]

\* Fault: save_order_to_db without its try/except lets a store exception out
save_raises_unguarded(dbOk) == ~dbOk

\* Whether save_order_to_db lets a store exception out to its caller: never

save_raises(dbOk) == FALSE

\* Fault: an upsert that rewrites the whole row
save_order_to_db_overwrite(db, order_id, accu360_order_id, status, request, dbOk) ==
    IF ~dbOk THEN db
    ELSE [db EXCEPT ![order_id] = NewRow(accu360_order_id, status, request)]

\* The table after save_order_to_db; dbOk = FALSE is a store operation that
\* throws (query or commit), after which the session is rolled back.
save_order_to_db(db, order_id, accu360_order_id, status, request, dbOk) ==
    IF ~dbOk THEN db
    ELSE IF db[order_id] # NoRow
         THEN [db EXCEPT ![order_id].status = status,
                         ![order_id].accu360_order_id =
                             IF Truthy(accu360_order_id) THEN accu360_order_id ELSE @]
         ELSE [db EXCEPT ![order_id] = NewRow(accu360_order_id, status, request)]

(***************************************************************************)
(* create_order: state of one execution                                    *)
(***************************************************************************)
NoReq == [customer_name |-> NULL, items |-> <<>>]
NoDetail == <<"", "">>
NoOut ==
    [kind |-> "none", status_code |-> 0, detail |-> NoDetail,
     order_id |-> NULL, accu360_order_id |-> NULL]

\* The sales-order document, by the fields that tie it to the order, the
\* customer and the address
NoPayload ==
    [customer |-> NULL, po_no |-> NULL, customer_address |-> NULL,
     shipping_address_name |-> NULL]

IdleH ==
    [pc |-> "idle", req |-> NoReq, oid |-> NULL, cust |-> NULL, addr |-> NULL,
     log |-> <<>>, erpLog |-> <<>>, dbFail |-> {}, out |-> NoOut,
     rowAtReturn |-> NULL, erpIdAtReturn |-> NULL, payload |-> NoPayload,
     inflight |-> NoResponse]

\* log entries: the store writes and ERP calls of an execution, in code order
Ev(op, arg) == [op |-> op, arg |-> arg]
ErpOps == {"search", "create_customer", "sync_get", "sync_put", "address", "sales"}

\* exceptions raised inside the handler; detail is <<fixed text, upstream text>>
HTTPException(status_code, detail) ==
    [http |-> TRUE, status_code |-> status_code, detail |-> detail]
\* any exception that is not an HTTPException (httpx transport errors, ...)
PlainException == [http |-> FALSE, status_code |-> 0, detail |-> NoDetail]

InternalError == <<"Internal server error", "">>

Error(status_code, detail) ==
    [kind |-> "error", status_code |-> status_code, detail |-> detail,
     order_id |-> NULL, accu360_order_id |-> NULL]

\* The handler returns or raises to the framework: h and the table as they are
\* at that moment.
Return(h, db, out) ==
    [h |-> [h EXCEPT !.pc = "done", !.out = out,
                     !.rowAtReturn = IF h.oid = NULL THEN NULL ELSE db[h.oid].status,
                     !.erpIdAtReturn =
                         IF h.oid = NULL THEN NULL ELSE db[h.oid].accu360_order_id],
     orders |-> db]

Continue(h, db) == [h |-> h, orders |-> db]

\* One call of save_order_to_db by the handler, recorded in its log
Save(h, db, accu360_order_id, status, dbOk) ==
    [h |-> [h EXCEPT !.log = Append(@, Ev("write", status)),
                     !.dbFail = IF dbOk THEN @ ELSE @ \cup {status}],
     orders |-> save_order_to_db(db, h.oid, accu360_order_id, status, h.req, dbOk)]

\* An ERP call is issued (the handler awaits its response at pc = op)
Call(h, op, arg) == [h EXCEPT !.pc = op, !.log = Append(@, Ev(op, arg))]

\* The response the handler got, kept as the ERP input history of the execution
Got(h, response) == [h EXCEPT !.erpLog = Append(@, response)]

\* Fault: except clauses that raise without marking the order failed
ExceptClauseNoSave(h, db, exc, dbOk) ==
    Return(h, db, IF exc.http THEN Error(exc.status_code, exc.detail)
                  ELSE Error(500, InternalError))

\* The two except clauses of create_order.  (A store exception escaping
\* save_order_to_db here would reach the framework as a 500.)
ExceptClause(h, db, exc, dbOk) ==
    LET s == Save(h, db, NULL, "failed", dbOk)
    IN  IF save_raises(dbOk) THEN Return(s.h, s.orders, Error(500, InternalError))
        ELSE IF exc.http THEN Return(s.h, s.orders, Error(exc.status_code, exc.detail))
        ELSE Return(s.h, s.orders, Error(500, InternalError))

\* get_accu360_auth_header raises when either credential is unset
auth_header_raises == ~Truthy(cfg.api_key) \/ ~Truthy(cfg.api_secret)

CredentialsError == HTTPException(500, <<"Accu360 API credentials not configured", "">>)

(***************************************************************************)
(* create_order: the segments between awaits, as functions of the handler  *)
(* state h, the table db, the ERP response received and the outcome dbOk   *)
(* of each store write the segment may make.  Each yields the new handler  *)
(* state and the new table.                                                *)
(***************************************************************************)
StrOrEmpty(s) == IF s = NULL THEN "" ELSE s
Strip(s) == IF s = " " THEN "" ELSE s

\* Python's `a or b or c ...` over optional strings, with a last resort
RECURSIVE FirstTruthy(_, _)
FirstTruthy(xs, last) ==
    IF xs = <<>> THEN last
    ELSE IF Truthy(xs[1]) THEN xs[1] ELSE FirstTruthy(Tail(xs), last)

Success(ok) == ok \in {200, 201}

\* create_shipping_address up to its POST
create_shipping_address(h, db, dbOk) ==
    IF ~Truthy(cfg.city) \/ ~Truthy(cfg.province)
    THEN ExceptClause(h, db,
             HTTPException(500, <<"Accu360 address defaults not configured (city/province)", "">>),
             dbOk)
    ELSE IF auth_header_raises THEN ExceptClause(h, db, CredentialsError, dbOk)
    ELSE Continue(Call(h, "address", h.cust), db)

\* sync_customer_fields up to its GET, entered with the resolved customer_id
sync_customer_fields(h, db, customer_id, dbOk) ==
    LET h1 == [h EXCEPT !.cust = customer_id]
    IN  IF auth_header_raises THEN ExceptClause(h1, db, CredentialsError, dbOk)
        ELSE Continue(Call(h1, "sync_get", customer_id), db)

\* find_or_create_customer up to its search GET
find_or_create_customer(h, db, dbOk) ==
    IF auth_header_raises THEN ExceptClause(h, db, CredentialsError, dbOk)
    ELSE Continue(Call(h, "search", NULL), db)

\* Fault: only the first item is validated
missing_skus_first_only(request) ==
    {i \in {1} : request.items[i] = ""}

\* The item positions whose accu360_sku is empty
missing_skus(request) ==
    {i \in 1..Len(request.items) : ~Truthy(request.items[i])}

MissingSkuError == Error(400, <<"Missing accu360_sku for products: ", "">>)

\* Fault: the customer search is issued before the queued write
create_order_search_first(h, db, request, order_id, dbQueued, dbFailed) ==
    IF missing_skus(request) # {}
    THEN Return([h EXCEPT !.req = request], db, MissingSkuError)
    ELSE LET h1 == [h EXCEPT !.req = request, !.oid = order_id]
             c == find_or_create_customer(h1, db, dbFailed)
         IN  IF c.h.pc = "done" THEN c
             ELSE Save(c.h, c.orders, NULL, "queued", dbQueued)

\* create_order from the request's arrival to its first await
create_order(h, db, request, order_id, dbQueued, dbFailed) ==
    IF missing_skus(request) # {}
    THEN Return([h EXCEPT !.req = request], db, MissingSkuError)
    ELSE LET h1 == [h EXCEPT !.req = request, !.oid = order_id]
             s == Save(h1, db, NULL, "queued", dbQueued)
         IN  IF save_raises(dbQueued)
             THEN Return(s.h, s.orders, Error(500, InternalError))
             ELSE find_or_create_customer(s.h, s.orders, dbFailed)

\* Fault: the search result is ignored and a customer is always created
on_search_always_create(h, db, response, dbOk) ==
    LET g == Got(h, response)
    IN  IF response.net THEN ExceptClause(g, db, PlainException, dbOk)
        ELSE Continue(Call(g, "create_customer", g.req.customer_name), db)

\* find_or_create_customer resumed with the response to the search GET
on_search(h, db, response, dbOk) ==
    LET g == Got(h, response)
        customers == IF response.code = 200
                     THEN safe_response_json(response).customers ELSE <<>>
    IN  IF response.net THEN ExceptClause(g, db, PlainException, dbOk)
        ELSE IF customers # <<>>
        THEN sync_customer_fields(g, db,
                 IF customers[1] # NULL THEN customers[1] ELSE g.req.customer_name, dbOk)
        ELSE Continue(Call(g, "create_customer", g.req.customer_name), db)

\* Fault: a refused customer-create fails the order
on_create_customer_strict(h, db, response, dbOk) ==
    LET g == Got(h, response)
        created == safe_response_json(response)
    IN  IF response.net THEN ExceptClause(g, db, PlainException, dbOk)
        ELSE IF Success(response.code)
        THEN sync_customer_fields(g, db,
                 IF created.data_name # NULL THEN created.data_name
                 ELSE g.req.customer_name, dbOk)
        ELSE ExceptClause(g, db,
                 HTTPException(502, <<"Accu360 error: ", response.text>>), dbOk)

\* find_or_create_customer resumed with the response to the create POST
on_create_customer(h, db, response, dbOk) ==
    LET g == Got(h, response)
        created == safe_response_json(response)
    IN  IF response.net THEN ExceptClause(g, db, PlainException, dbOk)
        ELSE IF Success(response.code)
        THEN sync_customer_fields(g, db,
                 IF created.data_name # NULL THEN created.data_name
                 ELSE g.req.customer_name, dbOk)
        ELSE sync_customer_fields(g, db, g.req.customer_name, dbOk)

\* Fault: a full name that differs from customer_name is taken as stale too
should_update_name_mismatch(data) ==
    LET current_mobile_number == Strip(StrOrEmpty(data.mobile_number))
        current_full_name == Strip(StrOrEmpty(data.full_name))
        current_customer_name == Strip(StrOrEmpty(data.cust_name))
    IN  \/ current_full_name = ""
        \/ current_mobile_number = ""
        \/ current_mobile_number = current_customer_name
        \/ current_mobile_number = current_full_name
        \/ current_full_name # current_customer_name

should_update(data) ==
    LET current_mobile_number == Strip(StrOrEmpty(data.mobile_number))
        current_full_name == Strip(StrOrEmpty(data.full_name))
        current_customer_name == Strip(StrOrEmpty(data.cust_name))
    IN  \/ current_full_name = ""
        \/ current_mobile_number = ""
        \/ current_mobile_number = current_customer_name
        \/ current_mobile_number = current_full_name

\* sync_customer_fields resumed with the response to its GET
on_sync_get(h, db, response, dbOk) ==
    LET g == Got(h, response)
    IN  IF response.net THEN ExceptClause(g, db, PlainException, dbOk)
        ELSE IF response.code # 200 THEN create_shipping_address(g, db, dbOk)
        ELSE IF ~should_update(safe_response_json(response))
        THEN create_shipping_address(g, db, dbOk)
        ELSE Continue(Call(g, "sync_put", g.cust), db)

\* sync_customer_fields resumed with the response to its PUT (not inspected)
on_sync_put(h, db, response, dbOk) ==
    LET g == Got(h, response)
    IN  IF response.net THEN ExceptClause(g, db, PlainException, dbOk)
        ELSE create_shipping_address(g, db, dbOk)

\* The upstream message of an ERP response: the first of the error, message
\* and detail keys that is set, else the raw text, else the last resort
error_detail(response, last) ==
    LET error_data == safe_response_json(response)
    IN  FirstTruthy(<<error_data.error, error_data.message, error_data.detail,
                      Strip(response.text)>>, last)

UpstreamError(detail) == HTTPException(502, <<"Accu360 error: ", detail>>)

\* The sales-order payload create_order builds
accu360_payload(customer_id, order_id, shipping_address_name) ==
    [customer |-> customer_id, po_no |-> order_id,
     customer_address |-> shipping_address_name,
     shipping_address_name |-> shipping_address_name]

\* Fault: the sales order is submitted whatever the address POST returned
on_address_sales_anyway(h, db, response, dbOk) ==
    LET g == Got(h, response)
        created == safe_response_json(response)
        address_name == IF Truthy(created.data_name) THEN created.data_name
                        ELSE created.name
    IN  IF response.net THEN ExceptClause(g, db, PlainException, dbOk)
        ELSE Continue(Call([g EXCEPT !.addr = address_name,
                                     !.payload = accu360_payload(g.cust, g.oid, address_name)],
                           "sales", g.oid), db)

\* create_shipping_address resumed with the response to its POST; on success
\* create_order goes on to build and POST the sales order.
on_address(h, db, response, dbOk) ==
    LET g == Got(h, response)
        created == safe_response_json(response)
        address_name == IF Truthy(created.data_name) THEN created.data_name
                        ELSE created.name
    IN  IF response.net THEN ExceptClause(g, db, PlainException, dbOk)
        ELSE IF Success(response.code) /\ Truthy(address_name)
        THEN IF auth_header_raises THEN ExceptClause(g, db, CredentialsError, dbOk)
             ELSE Continue(Call([g EXCEPT !.addr = address_name,
                                          !.payload = accu360_payload(g.cust, g.oid, address_name)],
                                "sales", g.oid), db)
        ELSE ExceptClause(g, db,
                 UpstreamError(error_detail(response, "Empty response from Accu360")), dbOk)

\* Fault: the sales-order response is taken as accepted without any check
on_sales_unchecked(h, db, response, dbPending, dbFailed) ==
    LET g == Got(h, response)
        accu360_data == safe_response_json(response)
        accu360_order_id == IF accu360_data.data_name # NULL
                            THEN accu360_data.data_name ELSE g.oid
        s == Save(g, db, accu360_order_id, "pending", dbPending)
    IN  Return(s.h, s.orders,
               [kind |-> "success", status_code |-> 200, detail |-> NoDetail,
                order_id |-> g.oid, accu360_order_id |-> accu360_order_id])

\* Fault: the order is written pending before the response is looked at
on_sales_pending_first(h, db, response, dbPending, dbFailed) ==
    LET g == Got(h, response)
        accu360_data == safe_response_json(response)
        accu360_order_id == IF accu360_data.data_name # NULL
                            THEN accu360_data.data_name ELSE g.oid
        s == Save(g, db, accu360_order_id, "pending", dbPending)
    IN  IF response.net THEN ExceptClause(s.h, s.orders, PlainException, dbFailed)
        ELSE IF ~Success(response.code)
        THEN ExceptClause(s.h, s.orders,
                 UpstreamError(error_detail(response, "Accu360 rejected the order")), dbFailed)
        ELSE IF accu360_data = EmptyObj
        THEN ExceptClause(s.h, s.orders,
                 HTTPException(502, <<"Accu360 returned empty or invalid response", "">>),
                 dbFailed)
        ELSE Return(s.h, s.orders,
                 [kind |-> "success", status_code |-> 200, detail |-> NoDetail,
                  order_id |-> g.oid, accu360_order_id |-> accu360_order_id])

\* Fault: the pending write does not pass the ERP's reference on
on_sales_reference_dropped(h, db, response, dbPending, dbFailed) ==
    LET g == Got(h, response)
        accu360_data == safe_response_json(response)
        accu360_order_id == IF accu360_data.data_name # NULL
                            THEN accu360_data.data_name ELSE g.oid
        s == Save(g, db, NULL, "pending", dbPending)
    IN  IF response.net THEN ExceptClause(g, db, PlainException, dbFailed)
        ELSE IF ~Success(response.code)
        THEN ExceptClause(g, db,
                 UpstreamError(error_detail(response, "Accu360 rejected the order")), dbFailed)
        ELSE IF accu360_data = EmptyObj
        THEN ExceptClause(g, db,
                 HTTPException(502, <<"Accu360 returned empty or invalid response", "">>),
                 dbFailed)
        ELSE Return(s.h, s.orders,
                 [kind |-> "success", status_code |-> 200, detail |-> NoDetail,
                  order_id |-> g.oid, accu360_order_id |-> accu360_order_id])

\* create_order resumed with the response to the sales-order POST
on_sales(h, db, response, dbPending, dbFailed) ==
    LET g == Got(h, response)
        accu360_data == safe_response_json(response)
        accu360_order_id == IF accu360_data.data_name # NULL
                            THEN accu360_data.data_name ELSE g.oid
        s == Save(g, db, accu360_order_id, "pending", dbPending)
    IN  IF response.net THEN ExceptClause(g, db, PlainException, dbFailed)
        ELSE IF ~Success(response.code)
        THEN ExceptClause(g, db,
                 UpstreamError(error_detail(response, "Accu360 rejected the order")), dbFailed)
        ELSE IF accu360_data = EmptyObj
        THEN ExceptClause(g, db,
                 HTTPException(502, <<"Accu360 returned empty or invalid response", "">>),
                 dbFailed)
        ELSE IF save_raises(dbPending)
        THEN ExceptClause(s.h, s.orders, PlainException, dbFailed)
        ELSE Return(s.h, s.orders,
                 [kind |-> "success", status_code |-> 200, detail |-> NoDetail,
                  order_id |-> g.oid, accu360_order_id |-> accu360_order_id])

(***************************************************************************)
(* accu360_webhook                                                         *)
(***************************************************************************)
Payloads == [order_id : WebhookIds, status : WebhookStatuses]

HasRow(db, id) == id \in OrderIds /\ db[id] # NoRow

\* Fault: a lookup that falls back to whatever row there is
webhook_lookup_any(db, order_id) ==
    LET by_erp == {id \in OrderIds : HasRow(db, id) /\ db[id].accu360_order_id = order_id}
    IN  IF by_erp # {} THEN by_erp
        ELSE IF HasRow(db, order_id) THEN {order_id}
        ELSE {id \in OrderIds : HasRow(db, id)}

\* The rows the lookup of the webhook may return: a row whose accu360_order_id
\* is the payload's order_id (`.first()` of an unordered query), else the row
\* whose id it is.
webhook_lookup(db, order_id) ==
    LET by_erp == {id \in OrderIds : HasRow(db, id) /\ db[id].accu360_order_id = order_id}
    IN  IF by_erp # {} THEN by_erp
        ELSE IF HasRow(db, order_id) THEN {order_id} ELSE {}

\* Fault: an update that is not restricted to the row found
webhook_update_all(db, order, status) ==
    [id \in OrderIds |-> IF HasRow(db, id) THEN [db[id] EXCEPT !.status = status] ELSE db[id]]

\* The update the webhook makes to the row it found
webhook_update(db, order, status) ==
    [db EXCEPT ![order].status = status]

(***************************************************************************)
(* sync_customer_fields against the customer record the ERP holds           *)
(***************************************************************************)
\* customer_name / customer_phone of a request, and the values a field of
\* the ERP's customer record may hold
Texts == {"", " ", "Asha", "0712"}
ErpTexts == {NULL, " ", "Asha", "0712"}

\* The customer document of the ERP, by the fields the code reads or writes
CustomerRecords ==
    [cust_name : ErpTexts, full_name : ErpTexts, mobile_number : ErpTexts,
     mobile_no : {NULL, "0712"}]

NoCustomer ==
    [cust_name |-> NULL, full_name |-> NULL, mobile_number |-> NULL, mobile_no |-> NULL]

\* Fault: the phone fields are filled with the name
update_payload_name_as_phone(customer_name, customer_phone) ==
    [full_name |-> customer_name, mobile_number |-> customer_name,
     mobile_no |-> customer_name, cust_name |-> customer_name]

\* The body of the PUT
update_payload(customer_name, customer_phone) ==
    [full_name |-> customer_name, mobile_number |-> customer_phone,
     mobile_no |-> customer_phone, cust_name |-> customer_name]

\* The ERP's answer to the GET when it returns the document it holds
RecordResponse(record) ==
    Json(200, Obj([full_name |-> record.full_name,
                   mobile_number |-> record.mobile_number,
                   cust_name |-> record.cust_name]))

\* State of the calls: the record the ERP holds, the arguments, and per call
\* the record at its start, the answer to its GET, the PUTs it issued and
\* whether the ERP applied them
IdleSync ==
    [pc |-> "idle", erp |-> NoCustomer, name |-> NULL, phone |-> NULL,
     call |-> 0, before |-> <<>>, got |-> <<>>, puts |-> <<>>, applied |-> <<>>]

\* sync_customer_fields up to its GET
sync_call(s) ==
    LET s1 == [s EXCEPT !.call = @ + 1, !.before = Append(@, s.erp),
                        !.got = Append(@, NetError), !.puts = Append(@, 0),
                        !.applied = Append(@, FALSE)]
    IN  IF auth_header_raises THEN [s1 EXCEPT !.pc = "done"]
        ELSE [s1 EXCEPT !.pc = "get"]

\* sync_customer_fields resumed with the response to its GET
sync_on_get(s, response) ==
    LET s1 == [s EXCEPT !.got[s.call] = response]
    IN  IF response.net THEN [s1 EXCEPT !.pc = "done"]
        ELSE IF response.code # 200 THEN [s1 EXCEPT !.pc = "done"]
        ELSE IF ~should_update(safe_response_json(response))
        THEN [s1 EXCEPT !.pc = "done"]
        ELSE [s1 EXCEPT !.pc = "put", !.puts[s.call] = @ + 1]

\* The PUT is answered (or fails); the ERP has applied the body or has not
sync_on_put(s, response, applied) ==
    [s EXCEPT !.pc = "done",
              !.applied[s.call] = applied,
              !.erp = IF applied THEN update_payload(s.name, s.phone) ELSE @]

(***************************************************************************)
(* The ERP's answers.  In scope "detail" one execution is explored against *)
(* every kind of answer; in scope "concurrent" several executions and the  *)
(* webhook are interleaved against the answers that decide the branches.   *)
(***************************************************************************)
SearchResponses ==
    IF scope = "detail"
    THEN { NetError,
           Json(500, Obj([message |-> "Server error"])),
           NotJson(200, "<html>"),
           Json(200, Obj([other |-> TRUE])),
           Json(200, Obj([customers |-> <<"CUST1", "CUST2">>])) }
    ELSE { Json(200, Obj([other |-> TRUE])) }

CreateCustomerResponses ==
    IF scope = "detail"
    THEN { NetError,
           Json(417, Obj([message |-> "Duplicate name"])),
           Json(200, Obj([data_name |-> "CUST3"])),
           Json(201, Obj([other |-> TRUE])) }
    ELSE { Json(200, Obj([data_name |-> "CUST3"])) }

SyncGetResponses ==
    IF scope = "detail"
    THEN { NetError,
           Json(404, Obj([message |-> "Not found"])),
           Json(200, Obj([full_name |-> "Asha", mobile_number |-> "0712", cust_name |-> "Asha"])),
           Json(200, Obj([full_name |-> " ", mobile_number |-> "0712", cust_name |-> "Asha"])),
           Json(200, Obj([full_name |-> "Asha", mobile_number |-> "Asha", cust_name |-> "Asha"])) }
    ELSE { Json(200, Obj([cust_name |-> "Asha"])) }

SyncPutResponses ==
    IF scope = "detail"
    THEN { NetError, Json(200, Obj([data_name |-> "CUST1"])),
           Json(417, Obj([message |-> "Validation failed"])) }
    ELSE { Json(200, Obj([data_name |-> "CUST1"])) }

AddressResponses ==
    IF scope = "detail"
    THEN { NetError,
           Json(201, Obj([data_name |-> "ADDR1"])),
           Json(200, Obj([name |-> "ADDR2"])),
           Json(200, Obj([message |-> "Address not saved"])),
           Json(417, Obj([detail |-> "Bad address"])),
           NotJson(502, "Bad gateway"),
           NotJson(500, " ") }
    ELSE { Json(201, Obj([data_name |-> "ADDR1"])) }

SalesResponses ==
    IF scope = "detail"
    THEN { NetError,
           Json(417, Obj([message |-> "Insufficient stock"])),
           Json(500, Obj([error |-> "Server error", message |-> "Traceback"])),
           NotJson(502, "Bad gateway"),
           NotJson(500, ""),
           NotJson(200, ""),
           Resp(200, TRUE, "{}", EmptyObj),
           Json(200, Obj([data_name |-> "SO1"])),
           Json(201, Obj([data_name |-> "SO2"])),
           Json(200, Obj([other |-> TRUE])) }
    ELSE { Json(200, Obj([data_name |-> "SO1"])),
           Json(200, Obj([data_name |-> "SO2"])),
           Json(417, Obj([message |-> "Insufficient stock"])) }

\* Answers to the GET of a customer document holding `record`
CustomerGetResponses(record) ==
    { NetError,
      Json(404, Obj([message |-> "Not found"])),
      NotJson(200, "<html>"),
      RecordResponse(record) }

\* Answers to the PUT, with whether the ERP applied the body: a call that
\* raised may or may not have reached the ERP
CustomerPutResponses ==
    { <<Json(200, Obj([data_name |-> "CUST1"])), TRUE>>,
      <<Json(417, Obj([message |-> "Validation failed"])), FALSE>>,
      <<NetError, TRUE>>,
      <<NetError, FALSE>> }

\* The requests and the executions explored in each scope
RequestsIn ==
    IF scope = "detail" THEN Requests
    ELSE {q \in Requests : Len(q.items) = 1}

ActiveSlots == IF scope = "detail" THEN {1} ELSE Slots

\* random.randint in generate_order_id: any id of the day may come out
generate_order_id == OrderIds

(***************************************************************************)
(* Actions                                                                 *)
(***************************************************************************)
Apply(r, res) ==
    /\ hs' = [hs EXCEPT ![r] = res.h]
    /\ orders' = res.orders

At(r, pc) == r \in ActiveSlots /\ hs[r].pc = pc

\* POST /orders arrives: validation, queued write, search issued.  The slots
\* are interchangeable, so they are taken in order.
CreateOrder(r) ==
    /\ At(r, "idle")
    /\ \A q \in Slots : q < r => hs[q].pc # "idle"
    /\ \E request \in RequestsIn, order_id \in generate_order_id, dbQueued, dbFailed \in BOOLEAN :
           Apply(r, create_order(hs[r], orders, request, order_id, dbQueued, dbFailed))
    /\ UNCHANGED <<scope, cfg, erpSales, whCount, lastWh, sy>>

SearchResponse(r) ==
    /\ At(r, "search")
    /\ \E response \in SearchResponses, dbOk \in BOOLEAN :
           Apply(r, on_search(hs[r], orders, response, dbOk))
    /\ UNCHANGED <<scope, cfg, erpSales, whCount, lastWh, sy>>

CreateCustomerResponse(r) ==
    /\ At(r, "create_customer")
    /\ \E response \in CreateCustomerResponses, dbOk \in BOOLEAN :
           Apply(r, on_create_customer(hs[r], orders, response, dbOk))
    /\ UNCHANGED <<scope, cfg, erpSales, whCount, lastWh, sy>>

SyncGetResponse(r) ==
    /\ At(r, "sync_get")
    /\ \E response \in SyncGetResponses, dbOk \in BOOLEAN :
           Apply(r, on_sync_get(hs[r], orders, response, dbOk))
    /\ UNCHANGED <<scope, cfg, erpSales, whCount, lastWh, sy>>

SyncPutResponse(r) ==
    /\ At(r, "sync_put")
    /\ \E response \in SyncPutResponses, dbOk \in BOOLEAN :
           Apply(r, on_sync_put(hs[r], orders, response, dbOk))
    /\ UNCHANGED <<scope, cfg, erpSales, whCount, lastWh, sy>>

AddressResponse(r) ==
    /\ At(r, "address")
    /\ \E response \in AddressResponses, dbOk \in BOOLEAN :
           Apply(r, on_address(hs[r], orders, response, dbOk))
    /\ UNCHANGED <<scope, cfg, erpSales, whCount, lastWh, sy>>

\* The ERP answers the sales-order POST (or the call fails); it holds the
\* sales order once it has answered 2xx.  The handler is still suspended at
\* its await: other handlers may run before it gets the response.
ErpSalesOrder(r) ==
    /\ At(r, "sales")
    /\ \E response \in SalesResponses :
           /\ hs' = [hs EXCEPT ![r].pc = "sales_reply", ![r].inflight = response]
           /\ erpSales' = IF ~response.net /\ Success(response.code)
                          THEN erpSales \cup {hs[r].oid} ELSE erpSales
    /\ UNCHANGED <<scope, cfg, orders, whCount, lastWh, sy>>

\* create_order resumes with the response to the sales-order POST
SalesResponse(r) ==
    /\ At(r, "sales_reply")
    /\ \E dbPending, dbFailed \in BOOLEAN :
           Apply(r, on_sales([hs[r] EXCEPT !.inflight = NoResponse], orders,
                             hs[r].inflight, dbPending, dbFailed))
    /\ UNCHANGED <<scope, cfg, erpSales, whCount, lastWh, sy>>

\* POST /webhooks/accu360, the whole handler.  Its queries and its commit are
\* taken to succeed: the handler has no handling of store exceptions.
Webhook ==
    /\ whCount < MaxWebhooks
    /\ \E payload \in Payloads :
           LET found == webhook_lookup(orders, payload.order_id)
           IN  IF found = {}
               THEN /\ orders' = orders
                    /\ lastWh' = [payload |-> payload, order |-> NULL, response |-> "ok",
                                  accepted |-> erpSales]
               ELSE \E order \in found :
                        /\ orders' = webhook_update(orders, order, payload.status)
                        /\ lastWh' = [payload |-> payload, order |-> order,
                                      response |-> "ok", accepted |-> erpSales]
    /\ whCount' = whCount + 1
    /\ UNCHANGED <<scope, cfg, hs, erpSales, sy>>

\* sync_customer_fields(customer_id, customer_name, customer_phone) is called
SyncCall ==
    /\ scope = "sync"
    /\ sy.pc \in {"idle", "done"}
    /\ sy.call < MaxSyncCalls
    /\ sy' = sync_call(sy)
    /\ UNCHANGED <<scope, cfg, orders, hs, erpSales, whCount, lastWh>>

SyncRead ==
    /\ scope = "sync"
    /\ sy.pc = "get"
    /\ \E response \in CustomerGetResponses(sy.erp) : sy' = sync_on_get(sy, response)
    /\ UNCHANGED <<scope, cfg, orders, hs, erpSales, whCount, lastWh>>

SyncWrite ==
    /\ scope = "sync"
    /\ sy.pc = "put"
    /\ \E answer \in CustomerPutResponses : sy' = sync_on_put(sy, answer[1], answer[2])
    /\ UNCHANGED <<scope, cfg, orders, hs, erpSales, whCount, lastWh>>

NoWebhook ==
    [payload |-> [order_id |-> NULL, status |-> NULL], order |-> NULL, response |-> NULL,
     accepted |-> {}]

InitCommon ==
    /\ orders = [id \in OrderIds |-> NoRow]
    /\ hs = [r \in Slots |-> IdleH]
    /\ erpSales = {}
    /\ whCount = 0
    /\ lastWh = NoWebhook

\* One execution of create_order against every kind of ERP answer
InitOrder == scope = "detail" /\ cfg \in Configs /\ InitCommon /\ sy = IdleSync

NextOrder ==
    \E r \in Slots :
        \/ CreateOrder(r)
        \/ SearchResponse(r)
        \/ CreateCustomerResponse(r)
        \/ SyncGetResponse(r)
        \/ SyncPutResponse(r)
        \/ AddressResponse(r)
        \/ ErpSalesOrder(r)
        \/ SalesResponse(r)

SpecOrder == InitOrder /\ [][NextOrder]_vars

\* Concurrent executions of create_order and webhook deliveries
Init == scope = "concurrent" /\ cfg = GoodConfig /\ InitCommon /\ sy = IdleSync

Next ==
    \/ NextOrder
    \/ Webhook

Spec == Init /\ [][Next]_vars

\* Repeated calls of sync_customer_fields with the same arguments on one
\* customer, for every record the ERP may hold and every name and phone
InitSync ==
    /\ scope = "sync" /\ cfg = GoodConfig /\ InitCommon
    /\ sy \in {[IdleSync EXCEPT !.erp = record, !.name = customer_name,
                                !.phone = customer_phone] :
                   record \in CustomerRecords, customer_name \in Texts,
                   customer_phone \in Texts}

NextSync ==
    \/ SyncCall
    \/ SyncRead
    \/ SyncWrite

SpecSync == InitSync /\ [][NextSync]_vars

(***************************************************************************)
(* Properties                                                              *)
(***************************************************************************)
Done(r) == hs[r].pc = "done"
AllSkusSet(request) == \A i \in DOMAIN request.items : request.items[i] # ""
Arrived(r) == hs[r].req # NoReq

WriteOf(status) == Ev("write", status)
IsErpCall(e) == e.op \in ErpOps

\* The ERP calls of an execution in the order issued; its i-th response is
\* hs[r].erpLog[i]
ErpCalls(r) == SelectSeq(hs[r].log, IsErpCall)
Answered(r) == 1..Len(hs[r].erpLog)

\* C1: once create_order has finished for a request whose items all carry a
\* SKU, and none of its store writes failed, the row of its order_id exists
\* and its status is pending or failed, not queued.
C1_TerminalStatus ==
    \A r \in Slots :
        (Done(r) /\ AllSkusSet(hs[r].req) /\ hs[r].dbFail = {})
            => hs[r].rowAtReturn \in {"pending", "failed"}

C1_Witness ==
    \E r \in Slots :
        /\ Done(r) /\ AllSkusSet(hs[r].req) /\ hs[r].dbFail = {}
        /\ hs[r].rowAtReturn = "failed"
        /\ \E q \in Slots : Done(q) /\ hs[q].dbFail = {} /\ hs[q].rowAtReturn = "pending"

\* C2: every ERP call of an execution comes after that execution's attempt
\* to write the queued row.
C2_QueuedBeforeErp ==
    \A r \in Slots : \A i \in DOMAIN hs[r].log :
        IsErpCall(hs[r].log[i]) => \E j \in 1..(i - 1) : hs[r].log[j] = WriteOf("queued")

C2_Witness ==
    \E r \in Slots :
        /\ Len(hs[r].log) >= 2
        /\ hs[r].log[1] = WriteOf("queued")
        /\ hs[r].log[2].op = "search"
        /\ "queued" \in hs[r].dbFail

\* C5: a request with an item whose SKU is empty is rejected with a 400 and
\* nothing else: no store write, no ERP call, no row in the table.
C5_RejectedNoSideEffect ==
    \A r \in Slots :
        (Arrived(r) /\ ~AllSkusSet(hs[r].req))
            => /\ Done(r)
               /\ hs[r].out.kind = "error" /\ hs[r].out.status_code = 400
               /\ hs[r].log = <<>> /\ hs[r].erpLog = <<>>
               /\ orders = [id \in OrderIds |-> NoRow]
               /\ erpSales = {}

C5_Witness ==
    \E r \in Slots :
        /\ Done(r) /\ hs[r].out.status_code = 400
        /\ Len(hs[r].req.items) = 2 /\ hs[r].req.items[1] # "" /\ hs[r].req.items[2] = ""

\* What it is for a step of the orchestration to fail on a response: customer
\* resolution fails when a call of it raises (every answer it gets is
\* tolerated); address creation and sales-order submission fail on a raised
\* call, a non-2xx answer, or a body without the reference / without content.
StepFailed(op, response) ==
    LET body == safe_response_json(response)
    IN  CASE op \in {"search", "create_customer"} -> response.net
          [] op = "address" ->
                \/ response.net \/ ~Success(response.code)
                \/ (~Truthy(body.data_name) /\ ~Truthy(body.name))
          [] op = "sales" ->
                response.net \/ ~Success(response.code) \/ body = EmptyObj
          [] OTHER -> FALSE

UpstreamMessages(response) ==
    IF response.net \/ ~response.valid THEN {}
    ELSE {m \in {response.json.error, response.json.message, response.json.detail} : Truthy(m)}

OutcomeView(r) ==
    [hs[r].out EXCEPT !.order_id = IF @ = NULL THEN NULL ELSE "order_id",
                      !.accu360_order_id = IF @ # NULL /\ @ = hs[r].oid THEN "order_id" ELSE @]

Accepted(response) ==
    ~response.net /\ Success(response.code) /\ safe_response_json(response) # EmptyObj

\* C4: two executions of the same request that got the same ERP responses
\* have the same outcome whichever of their store writes failed; and an
\* execution whose sales order the ERP accepted returns success, also when
\* its queued write threw.
C4_OutcomeIgnoresStore ==
    /\ \A r, q \in Slots :
           (Done(r) /\ Done(q) /\ hs[r].req = hs[q].req /\ hs[r].erpLog = hs[q].erpLog)
               => OutcomeView(r) = OutcomeView(q)
    /\ \A r \in Slots :
           (Done(r) /\ hs[r].erpLog # <<>> /\ ErpCalls(r)[Len(hs[r].erpLog)].op = "sales"
                /\ Accepted(hs[r].erpLog[Len(hs[r].erpLog)]))
               => hs[r].out.kind = "success"
    /\ \A r \in Slots :
           (AllSkusSet(hs[r].req) /\ Arrived(r) /\ "queued" \in hs[r].dbFail
                /\ Truthy(cfg.api_key) /\ Truthy(cfg.api_secret))
               => \E i \in DOMAIN hs[r].log : hs[r].log[i].op = "search"

C4_Witness ==
    \E r, q \in Slots :
        /\ r # q /\ Done(r) /\ Done(q)
        /\ hs[r].req = hs[q].req /\ hs[r].erpLog = hs[q].erpLog
        /\ hs[r].dbFail = {"queued", "pending"} /\ hs[q].dbFail = {}
        /\ hs[r].out.kind = "success" /\ hs[q].out.kind = "success"
        /\ hs[r].rowAtReturn = NULL

SyncFailed(op, response) ==
    \/ op = "sync_get" /\ (response.net \/ response.code # 200)
    \/ op = "sync_put" /\ (response.net \/ ~Success(response.code))

\* C6: a failure inside customer-field reconciliation (a non-200 read, a
\* failed update, a raised call) does not abort the order: the execution goes
\* on to address creation and is not ended by that failure.
C6_SyncFailureNotFatal ==
    \A r \in Slots : \A i \in Answered(r) :
        (cfg = GoodConfig /\ SyncFailed(ErpCalls(r)[i].op, hs[r].erpLog[i]))
            => \E k \in DOMAIN hs[r].log : hs[r].log[k].op = "address"

\* A webhook was handled in this step
WebhookStep == whCount' = whCount + 1

\* The rows a payload's order_id refers to: those holding it as ERP order id,
\* and if there is none the row holding it as local id
RowsByErpId(db, order_id) ==
    {id \in OrderIds : db[id] # NoRow /\ db[id].accu360_order_id = order_id}
RowsByLocalId(db, order_id) ==
    {id \in OrderIds : db[id] # NoRow /\ id = order_id}

\* C7: a webhook whose order_id is neither the ERP order id nor the local id
\* of a stored row answers ok and leaves the table as it was.
C7_UnknownWebhookNoOp ==
    [][(WebhookStep
          /\ RowsByErpId(orders, lastWh'.payload.order_id) = {}
          /\ RowsByLocalId(orders, lastWh'.payload.order_id) = {})
         => (orders' = orders /\ lastWh'.response = "ok" /\ lastWh'.order = NULL)]_vars

C7_Witness ==
    /\ whCount > 0 /\ lastWh.order = NULL /\ lastWh.response = "ok"
    /\ lastWh.payload.order_id = "SO2"
    /\ \E id \in OrderIds : orders[id] # NoRow /\ orders[id].accu360_order_id = "SO1"

\* C8: a webhook whose order_id is the ERP order id of a stored row, or else
\* the local id of one, sets the status of that row to the payload's status,
\* leaves the row's other columns and every other row as they were, and
\* answers ok.
C8_KnownWebhookUpdatesRow ==
    [][(WebhookStep
          /\ (RowsByErpId(orders, lastWh'.payload.order_id)
                \cup RowsByLocalId(orders, lastWh'.payload.order_id)) # {})
         => LET payload == lastWh'.payload
                order == lastWh'.order
                by_erp == RowsByErpId(orders, payload.order_id)
            IN  /\ order \in (IF by_erp # {} THEN by_erp
                              ELSE RowsByLocalId(orders, payload.order_id))
                /\ orders' = [orders EXCEPT ![order] =
                                 [orders[order] EXCEPT !.status = payload.status]]
                /\ lastWh'.response = "ok"]_vars

C8_Witness ==
    /\ whCount > 0 /\ lastWh.order # NULL
    /\ lastWh.payload.order_id \in SalesNames
    /\ orders[lastWh.order].status = "delivered"
    /\ orders[lastWh.order].accu360_order_id = lastWh.payload.order_id
    /\ \E id \in OrderIds : id # lastWh.order /\ orders[id].status = "pending"

\* C9: a row's erp_order_id is null until the ERP has accepted a sales order
\* for its order id, and once it is set no step changes it to another value.
C9_ErpIdSetOnce ==
    [][\A id \in OrderIds :
          /\ orders'[id].accu360_order_id # NULL => id \in erpSales'
          /\ orders[id].accu360_order_id # NULL
                => orders'[id].accu360_order_id = orders[id].accu360_order_id]_vars

FoundMatch(response) ==
    /\ ~response.net /\ response.code = 200 /\ response.valid
    /\ response.json.customers # <<>>

CreateCalls(r) == {k \in DOMAIN hs[r].log : hs[r].log[k].op = "create_customer"}

\* C10: when the customer lookup returns a match, no customer-create call is
\* made and the first match's id is the customer of every later call; when it
\* returns without a match, exactly one customer-create call is made.
C10_FindOrCreate ==
    \A r \in Slots :
        hs[r].erpLog # <<>> =>
            LET lookup == hs[r].erpLog[1]
            IN  /\ FoundMatch(lookup)
                    => /\ CreateCalls(r) = {}
                       /\ hs[r].cust = lookup.json.customers[1]
                       /\ \A k \in DOMAIN hs[r].log :
                              hs[r].log[k].op \in {"sync_get", "sync_put", "address"}
                                  => hs[r].log[k].arg = lookup.json.customers[1]
                /\ (~lookup.net /\ ~FoundMatch(lookup)) => Cardinality(CreateCalls(r)) = 1
                /\ lookup.net => CreateCalls(r) = {}

C10_Witness ==
    \E r \in Slots :
        /\ Done(r) /\ hs[r].out.kind = "success"
        /\ FoundMatch(hs[r].erpLog[1])
        /\ Len(hs[r].erpLog[1].json.customers) = 2
        /\ hs[r].cust = "CUST1"

(***************************************************************************)
(* Customer reconciliation                                                 *)
(***************************************************************************)
NonBlank(text) == text \notin {NULL, "", " "}

\* The document a call read: what its GET returned with a 200
ReadData(k) == safe_response_json(sy.got[k])
Read200(k) == ~sy.got[k].net /\ sy.got[k].code = 200
ReadRecord(k) == Read200(k) /\ sy.got[k] = RecordResponse(sy.before[k])

\* Nothing left for the reconciliation to fill in: both fields are set and
\* the mobile number is neither the customer name nor the full name
GoodData(data) ==
    /\ NonBlank(data.full_name)
    /\ NonBlank(data.mobile_number)
    /\ data.mobile_number # data.cust_name
    /\ data.mobile_number # data.full_name

SyncCompleted(k) == k < sy.call \/ (k = sy.call /\ sy.pc = "done")

\* The record the ERP holds once call k has completed
RecordAfter(k) == IF k < sy.call THEN sy.before[k + 1] ELSE sy.erp

\* C11: a call of sync_customer_fields that reads a document whose full name
\* and mobile number are set, and whose mobile number is not a placeholder
\* (the customer name or the full name), issues no update; a call issues at
\* most one update, and only after reading a document in which one of the
\* two fields is blank or the mobile number is such a placeholder.
C11_UpdateOnlyWhenBlankOrPlaceholder ==
    \A k \in 1..sy.call :
        /\ (Read200(k) /\ GoodData(ReadData(k))) => sy.puts[k] = 0
        /\ sy.puts[k] <= 1
        /\ sy.puts[k] > 0
              => /\ Read200(k)
                 /\ \/ ~NonBlank(ReadData(k).full_name)
                    \/ ~NonBlank(ReadData(k).mobile_number)
                    \/ ReadData(k).mobile_number = ReadData(k).cust_name
                    \/ ReadData(k).mobile_number = ReadData(k).full_name

C11_Witness ==
    /\ sy.call = 2 /\ sy.pc = "done"
    /\ ReadRecord(1) /\ sy.puts[1] = 1 /\ sy.applied[1]
    /\ NonBlank(ReadData(1).full_name) /\ ReadData(1).mobile_number = ReadData(1).cust_name
    /\ ReadRecord(2) /\ GoodData(ReadData(2)) /\ sy.puts[2] = 0

\* C12 as stated: whatever the name and phone, once a call has completed and
\* the ERP has applied the update it issued (if any), the next call with the
\* same arguments issues no update and leaves the record as it was.
C12_SecondCallNoUpdate ==
    \A k \in 1..sy.call :
        (k >= 2 /\ SyncCompleted(k) /\ (sy.puts[k - 1] > 0 => sy.applied[k - 1]))
            => /\ sy.puts[k] = 0
               /\ RecordAfter(k) = RecordAfter(k - 1)

\* C12: for a name and a phone that are both non-blank and differ from each
\* other, once a call that read the customer record has completed and the ERP
\* has applied the update it issued (if any), the next call with the same
\* arguments that reads the record issues no update and leaves the record as
\* it was.
C12_SecondCallNoUpdateForUsableArgs ==
    \A k \in 1..sy.call :
        (/\ k >= 2 /\ SyncCompleted(k)
         /\ NonBlank(sy.name) /\ NonBlank(sy.phone) /\ sy.name # sy.phone
         /\ ReadRecord(k - 1) /\ ReadRecord(k)
         /\ (sy.puts[k - 1] > 0 => sy.applied[k - 1]))
            => /\ sy.puts[k] = 0
               /\ RecordAfter(k) = RecordAfter(k - 1)

C12_Witness ==
    /\ sy.call = 2 /\ sy.pc = "done"
    /\ NonBlank(sy.name) /\ NonBlank(sy.phone) /\ sy.name # sy.phone
    /\ ReadRecord(1) /\ sy.puts[1] = 1 /\ sy.applied[1]
    /\ sy.before[1] # sy.before[2]
    /\ ReadRecord(2) /\ sy.puts[2] = 0 /\ sy.erp = sy.before[2]

(***************************************************************************)
(* Configuration errors                                                    *)
(***************************************************************************)
ConfigErrorDetails ==
    { <<"Accu360 API credentials not configured", "">>,
      <<"Accu360 address defaults not configured (city/province)", "">> }

ConfigErrorRaised(r) ==
    Done(r) /\ hs[r].out.kind = "error" /\ hs[r].out.detail \in ConfigErrorDetails

\* The ERP calls of an execution that created a record: a customer POST, an
\* address POST or a sales-order POST answered 2xx
ErpCreated(r) ==
    {i \in Answered(r) :
        /\ ErpCalls(r)[i].op \in {"create_customer", "address", "sales"}
        /\ ~hs[r].erpLog[i].net /\ Success(hs[r].erpLog[i].code)}

\* C13: when create_order ends in a configuration error (credentials, or
\* default city / province, not set), the error is a 5xx, the execution has
\* written nothing to the store, no row exists for its order, and it created
\* no ERP record.
C13_ConfigErrorNoSideEffects ==
    \A r \in Slots :
        ConfigErrorRaised(r)
            => /\ hs[r].out.status_code >= 500
               /\ hs[r].log = <<>>
               /\ orders = [id \in OrderIds |-> NoRow]
               /\ ErpCreated(r) = {}

(***************************************************************************)
(* The success path                                                        *)
(***************************************************************************)
Succeeded(r) == Done(r) /\ hs[r].out.kind = "success"

\* The last ERP call of an execution and the response to it
LastCall(r) == ErpCalls(r)[Len(ErpCalls(r))]
LastResponse(r) == hs[r].erpLog[Len(hs[r].erpLog)]

\* The sales-order name in a response of the ERP
AssignedReference(response) == safe_response_json(response).data_name

HandlerStep(r) == hs'[r] # hs[r]

\* C15: a step of one execution of create_order leaves the row of every
\* other execution's order as it was (status, ERP order id and snapshot).
C15_WritesOnlyOwnRow ==
    [][\A r, q \in Slots :
          (r # q /\ HandlerStep(r) /\ hs[q].oid # NULL)
              => orders'[hs[q].oid] = orders[hs[q].oid]]_vars

(***************************************************************************)
(* Order of the ERP calls                                                  *)
(***************************************************************************)
\* Position of each ERP call in the sequence of section "Order Orchestrator"
Rank(op) ==
    CASE op = "search" -> 1
      [] op = "create_customer" -> 2
      [] op = "sync_get" -> 3
      [] op = "sync_put" -> 4
      [] op = "address" -> 5
      [] op = "sales" -> 6

\* The reference an address POST returned, NULL if it returned none
AddressReference(response) ==
    IF response.net \/ ~Success(response.code) THEN NULL
    ELSE IF Truthy(safe_response_json(response).data_name)
    THEN safe_response_json(response).data_name
    ELSE IF Truthy(safe_response_json(response).name)
    THEN safe_response_json(response).name
    ELSE NULL

IndexOf(r, op) == {i \in DOMAIN ErpCalls(r) : ErpCalls(r)[i].op = op}

\* C16: the ERP calls of an execution are issued one at a time in the order
\* search, create, reconciliation, address, sales order (create and the
\* reconciliation update being optional); the sales order is submitted only
\* after the address POST returned a reference, and carries that reference,
\* the resolved customer and po_no = the local order id; when the address
\* POST fails no sales order is submitted and the order is marked failed.
C16_ErpCallOrder ==
    \A r \in Slots :
        LET calls == ErpCalls(r)
        IN  /\ Len(calls) <= Len(hs[r].erpLog) + 1
            /\ Len(hs[r].erpLog) <= Len(calls)
            /\ \A i, j \in DOMAIN calls : i < j => Rank(calls[i].op) < Rank(calls[j].op)
            /\ calls # <<>> => calls[1].op = "search"
            /\ \A i \in DOMAIN calls :
                  /\ calls[i].op = "sync_put" => i > 1 /\ calls[i - 1].op = "sync_get"
                  /\ calls[i].op = "address"
                        => i > 1 /\ calls[i - 1].op \in {"sync_get", "sync_put"}
                  /\ calls[i].op = "sales"
                        => /\ i > 1 /\ calls[i - 1].op = "address"
                           /\ AddressReference(hs[r].erpLog[i - 1]) # NULL
                           /\ hs[r].payload.shipping_address_name
                                  = AddressReference(hs[r].erpLog[i - 1])
                           /\ hs[r].payload.customer_address
                                  = AddressReference(hs[r].erpLog[i - 1])
                           /\ hs[r].payload.po_no = hs[r].oid
                           /\ hs[r].payload.customer = hs[r].cust
                           /\ calls[i].arg = hs[r].oid
            /\ \A i \in Answered(r) :
                  (calls[i].op = "address" /\ AddressReference(hs[r].erpLog[i]) = NULL)
                      => /\ IndexOf(r, "sales") = {}
                         /\ hs[r].payload = NoPayload
                         /\ Done(r) /\ hs[r].out.kind = "error"
                         /\ hs[r].log[Len(hs[r].log)] = WriteOf("failed")
                         /\ hs[r].dbFail = {} => hs[r].rowAtReturn = "failed"

C16_Witness ==
    \E r \in Slots :
        /\ Done(r)
        /\ [i \in DOMAIN ErpCalls(r) |-> ErpCalls(r)[i].op]
               = <<"search", "create_customer", "sync_get", "sync_put", "address", "sales">>
        /\ AddressReference(hs[r].erpLog[5]) = "ADDR2"
        /\ hs[r].payload.shipping_address_name = "ADDR2"
        /\ hs[r].payload.po_no = hs[r].oid
        /\ hs[r].payload.customer = "CUST3"

(***************************************************************************)
(* Customer-create fallback                                                *)
(***************************************************************************)
\* The customer-create POST was answered, and not with 200 / 201
CreateRefused(r) ==
    /\ Len(hs[r].erpLog) >= 2
    /\ ErpCalls(r)[2].op = "create_customer"
    /\ ~hs[r].erpLog[2].net /\ ~Success(hs[r].erpLog[2].code)

\* C17: when the customer-create POST is answered with a non-success status
\* the order is not failed by it: the request's customer_name becomes the
\* customer id, the reconciliation GET is issued for it next, and the address
\* POST and the sales order, when the execution gets to them, use it; with
\* the address defaults configured and no later call failing, the order
\* succeeds.
C17_CreateFailureFallsBack ==
    \A r \in Slots :
        CreateRefused(r) =>
            /\ hs[r].cust = hs[r].req.customer_name
            /\ Len(ErpCalls(r)) >= 3
            /\ ErpCalls(r)[3] = Ev("sync_get", hs[r].req.customer_name)
            /\ \A i \in DOMAIN ErpCalls(r) :
                  ErpCalls(r)[i].op \in {"sync_put", "address"}
                      => ErpCalls(r)[i].arg = hs[r].req.customer_name
            /\ IndexOf(r, "sales") # {} => hs[r].payload.customer = hs[r].req.customer_name
            /\ (/\ Done(r) /\ Len(hs[r].erpLog) = Len(ErpCalls(r))
                /\ Truthy(cfg.city) /\ Truthy(cfg.province)
                /\ \A i \in 3..Len(hs[r].erpLog) :
                      /\ ~hs[r].erpLog[i].net
                      /\ ~StepFailed(ErpCalls(r)[i].op, hs[r].erpLog[i]))
                  => Succeeded(r)

C17_Witness ==
    \E r \in Slots :
        /\ CreateRefused(r) /\ Succeeded(r)
        /\ hs[r].req.customer_name = "Bora"
        /\ hs[r].payload.customer = "Bora"
        /\ IndexOf(r, "address") # {}

(***************************************************************************)
(* The upsert                                                              *)
(***************************************************************************)
IsWrite(e) == e.op = "write"

\* The calls of save_order_to_db made in a step of execution r
StepWrites(r) ==
    SelectSeq(SubSeq(hs'[r].log, Len(hs[r].log) + 1, Len(hs'[r].log)), IsWrite)

Snapshot(row) == [customer_name |-> row.customer_name, items |-> row.items]

\* What one call of save_order_to_db by execution r, with the given status,
\* may do to the table: nothing when the store operation throws (and the
\* handler goes on as if it had not); on an existing row set the status, set
\* the ERP order id only when the call provides one (the pending write), and
\* keep the snapshot; on no row insert the full row of the request.
UpsertEffect(r, status) ==
    LET id == hs'[r].oid
        provided == IF status = "pending" THEN hs'[r].out.accu360_order_id ELSE NULL
    IN  /\ \A other \in OrderIds \ {id} : orders'[other] = orders[other]
        /\ IF status \in hs'[r].dbFail
           THEN /\ orders' = orders
                /\ status = "queued" => hs'[r].pc = "search"
                /\ status = "pending" => hs'[r].out.kind = "success"
           ELSE IF orders[id] # NoRow
           THEN /\ Snapshot(orders'[id]) = Snapshot(orders[id])
                /\ orders'[id].status = status
                /\ orders'[id].accu360_order_id =
                       IF provided # NULL THEN provided ELSE orders[id].accu360_order_id
           ELSE orders'[id] =
                    [status |-> status, accu360_order_id |-> provided,
                     customer_name |-> hs'[r].req.customer_name,
                     items |-> hs'[r].req.items]

\* C18: every call of save_order_to_db touches only the row of its order_id;
\* on an existing row it changes the status and, only when a non-null value
\* is provided, the ERP order id, and leaves the snapshot as it is; when
\* there is no row it inserts the full row; a store operation that throws
\* leaves the table as it was and does not stop the caller.
C18_UpsertFrame ==
    [][\A r \in Slots :
          HandlerStep(r) =>
              /\ Len(StepWrites(r)) <= 1
              /\ StepWrites(r) = <<>> => orders' = orders
              /\ StepWrites(r) # <<>> => UpsertEffect(r, StepWrites(r)[1].arg)]_vars

C18_Witness ==
    \E r \in Slots :
        /\ Succeeded(r) /\ hs[r].dbFail = {}
        /\ orders[hs[r].oid].customer_name # hs[r].req.customer_name
        /\ orders[hs[r].oid].status = "pending"
        /\ orders[hs[r].oid].accu360_order_id = hs[r].out.accu360_order_id
        /\ \E q \in Slots : Succeeded(q) /\ hs[q].dbFail = {"queued"}

(***************************************************************************)
(* Status transitions                                                      *)
(***************************************************************************)
\* The statuses an execution passed to save_order_to_db, in order
Writes(r) ==
    LET ws == SelectSeq(hs[r].log, IsWrite)
    IN  [i \in DOMAIN ws |-> ws[i].arg]

\* C19: the statuses create_order writes for a request are queued first and
\* then exactly one of pending or failed, nothing else and nothing after;
\* an execution that has finished for a valid request has written both.
C19_StatusMachine ==
    \A r \in Slots :
        /\ Writes(r) \in {<<>>, <<"queued">>, <<"queued", "pending">>, <<"queued", "failed">>}
        /\ (Done(r) /\ AllSkusSet(hs[r].req)) => Len(Writes(r)) = 2
        /\ (Writes(r) # <<>> /\ hs[r].log # <<>>) => hs[r].log[1] = WriteOf("queued")
        /\ Len(Writes(r)) = 2 => Done(r) /\ IsWrite(hs[r].log[Len(hs[r].log)])

C19_Witness ==
    \E r \in Slots :
        /\ Done(r)
        /\ hs[r].erpLog # <<>> /\ LastCall(r).op = "sales"
        /\ Len(hs[r].erpLog) = Len(ErpCalls(r))
        /\ ~LastResponse(r).net /\ Success(LastResponse(r).code)
        /\ Writes(r) = <<"queued", "failed">>

(***************************************************************************)
(* Webhook against a running create_order                                  *)
(***************************************************************************)
\* Execution r is the only one, it has finished without a failed store
\* write, and the ERP answered its sales-order POST 2xx
AcceptedAndFinished(r) ==
    /\ Done(r) /\ hs[r].dbFail = {}
    /\ \A q \in Slots \ {r} : hs[q].pc = "idle"
    /\ hs[r].erpLog # <<>> /\ Len(hs[r].erpLog) = Len(ErpCalls(r))
    /\ LastCall(r).op = "sales"
    /\ ~LastResponse(r).net /\ Success(LastResponse(r).code)

\* The last webhook was delivered when the ERP already held the sales order
\* of execution r, and names that order by its local id or by the name the
\* ERP gave it
LastWebhookFor(r) ==
    /\ whCount > 0
    /\ hs[r].oid \in lastWh.accepted
    /\ lastWh.payload.order_id \in {hs[r].oid, AssignedReference(LastResponse(r))}

\* C20: once create_order and the webhook handler have both finished, the
\* status of a webhook that was delivered after the ERP accepted the sales
\* order, naming the order by local id or by ERP order id, is the status of
\* the order's row.
C20_WebhookNotLost ==
    \A r \in Slots :
        (AcceptedAndFinished(r) /\ LastWebhookFor(r))
            => orders[hs[r].oid].status = lastWh.payload.status

(***************************************************************************)
(* Agreement of the local row with the ERP                                 *)
(***************************************************************************)
MarkedFailed(r) ==
    /\ Done(r) /\ hs[r].out.kind = "error"
    /\ \E i \in DOMAIN hs[r].log : hs[r].log[i] = WriteOf("failed")

\* C21: an execution that marked its order failed and raised an error has no
\* sales order with its order_id as po_no accepted by the ERP; and an
\* execution that has finished and whose sales order the ERP accepted (2xx)
\* returned success, with the row pending unless a store write failed.
C21_LocalAgreesWithErp ==
    \A r \in Slots :
        /\ MarkedFailed(r) => hs[r].oid \notin erpSales
        /\ (Done(r) /\ hs[r].oid # NULL /\ hs[r].oid \in erpSales)
              => /\ Succeeded(r)
                 /\ hs[r].dbFail = {} => hs[r].rowAtReturn = "pending"

====
